---- MODULE Spec2Model ----
(***************************************************************************)
(* A model of canpacis/http-payload: the scanners of scanner.go, the       *)
(* printers of printer.go, and the struct decoder/encoder                  *)
(* (internal/structende) they delegate to.                                 *)
(*                                                                         *)
(* Text is a sequence of one-character strings, so that splitting,         *)
(* joining, parsing and formatting are computed and not assumed.           *)
(***************************************************************************)
EXTENDS Integers, Sequences, FiniteSets, TLC

(***************************************************************************)
(* Bounds of the model.                                                    *)
(***************************************************************************)
\* longest generated source text handed to a cast
MaxLen == 3
\* longest pipe of scanners
MaxScanners == 2
\* longest pipe of printers
MaxPrinters == 3
\* most calls of HeaderPrinter.Set made by hand on one response
MaxSets == 1

\* F applied to the value of e, with e evaluated once
Bind(e, F(_)) == CHOOSE y \in {F(x) : x \in {e}} : TRUE

(***************************************************************************)
(* Text.                                                                   *)
(***************************************************************************)
Comma == ","

Digits == <<"0", "1", "2", "3", "4", "5", "6", "7", "8", "9">>

IsDigit(c) == \E i \in 1..10 : Digits[i] = c

DigitVal(c) == (CHOOSE i \in 1..10 : Digits[i] = c) - 1

\* the characters generated texts are made of
Alphabet == {"a", "0", "7", Comma, "-"}

RECURSIVE TextsOfLen(_)
TextsOfLen(n) ==
    IF n = 0 THEN {<<>>}
    ELSE {Append(t, c) : t \in TextsOfLen(n - 1), c \in Alphabet}

Texts == UNION {TextsOfLen(n) : n \in 0..MaxLen}

\* strings.Split(s, ","): the parts between commas; one empty part for ""
RECURSIVE SplitFrom(_, _, _)
SplitFrom(t, i, cur) ==
    IF i > Len(t) THEN <<cur>>
    ELSE IF t[i] = Comma THEN <<cur>> \o SplitFrom(t, i + 1, <<>>)
    ELSE SplitFrom(t, i + 1, Append(cur, t[i]))

SplitComma(t) == SplitFrom(t, 1, <<>>)

\* strings.Join(parts, ",")
RECURSIVE JoinComma(_)
JoinComma(parts) ==
    IF Len(parts) = 0 THEN <<>>
    ELSE IF Len(parts) = 1 THEN parts[1]
    ELSE parts[1] \o <<Comma>> \o JoinComma(Tail(parts))

AllDigits(t) == \A i \in 1..Len(t) : IsDigit(t[i])

RECURSIVE DecimalValue(_)
DecimalValue(t) ==
    IF Len(t) = 0 THEN 0
    ELSE 10 * DecimalValue(SubSeq(t, 1, Len(t) - 1)) + DigitVal(t[Len(t)])

\* canonical decimal rendering of a natural number
RECURSIVE FormatUint(_)
FormatUint(n) ==
    IF n < 10 THEN <<Digits[n + 1]>>
    ELSE Append(FormatUint(n \div 10), Digits[(n % 10) + 1])

FormatInt(n) == IF n < 0 THEN <<"-">> \o FormatUint(-n) ELSE FormatUint(n)

TrueText == <<"t", "r", "u", "e">>
FalseText == <<"f", "a", "l", "s", "e">>

(***************************************************************************)
(* Values.  Every value carries its kind in k and its payload in v.        *)
(***************************************************************************)
NilV == [k |-> "nil", v |-> <<>>]
StrV(t) == [k |-> "str", v |-> t]
UintV(n) == [k |-> "uint", v |-> n]
IntV(n) == [k |-> "int", v |-> n]
BoolV(b) == [k |-> "bool", v |-> b]
RoleV(name) == [k |-> "role", v |-> name]
LevelV(name) == [k |-> "level", v |-> name]
FileV(id) == [k |-> "file", v |-> id]
SeqV(elems) == [k |-> "seq", v |-> elems]

\* the result of a conversion: a value, or the cause of the failure
Ok(val) == [val |-> val, cause |-> ""]
Fail(cause) == [val |-> NilV, cause |-> cause]

(***************************************************************************)
(* Field types.                                                            *)
(***************************************************************************)
ScalarTypes == {"string", "uint32", "int", "bool", "Role", "Level", "File"}
SliceTypes == {"[]string", "[]int", "[]Role", "[]Level"}

IsSlice(type) == type \in SliceTypes

Elem(type) ==
    CASE type = "[]string" -> "string"
      [] type = "[]int" -> "int"
      [] type = "[]Role" -> "Role"
      [] type = "[]Level" -> "Level"

\* the zero value of a Go type
Zero(type) ==
    CASE type = "string" -> StrV(<<>>)
      [] type = "uint32" -> UintV(0)
      [] type = "int" -> IntV(0)
      [] type = "bool" -> BoolV(FALSE)
      [] type = "Role" -> RoleV(<<>>)
      [] type = "Level" -> LevelV(<<>>)
      [] type = "File" -> NilV
      [] OTHER -> SeqV(<<>>)

(***************************************************************************)
(* Parse-from-string capabilities of field types.                          *)
(***************************************************************************)
\* an UnmarshalString that forgets to keep the name
RoleUnmarshalStringDropsName(s) == Ok(RoleV(<<>>))

\* (*Role).UnmarshalString: keeps the whole text as the name, never fails
RoleUnmarshalString(s) == Ok(RoleV(s))

\* a field type whose parser can fail: it accepts only non-empty texts of
\* letters and fails with its own error otherwise
LevelUnmarshalString(s) ==
    IF Len(s) > 0 /\ \A i \in 1..Len(s) : s[i] = "a"
    THEN Ok(LevelV(s))
    ELSE Fail("level: unknown")

(***************************************************************************)
(* Default conversion policy: DefaultCast of internal/structende.          *)
(***************************************************************************)
ParseUint(t) ==
    IF Len(t) > 0 /\ AllDigits(t) THEN Ok(UintV(DecimalValue(t)))
    ELSE Fail("syntax")

ParseInt(t) ==
    LET signed == Len(t) > 0 /\ t[1] \in {"-", "+"}
        body == IF signed THEN Tail(t) ELSE t
    IN  IF Len(body) > 0 /\ AllDigits(body)
        THEN Ok(IntV(IF signed /\ t[1] = "-" THEN 0 - DecimalValue(body)
                     ELSE DecimalValue(body)))
        ELSE Fail("syntax")

ParseBool(t) ==
    IF t = TrueText THEN Ok(BoolV(TRUE))
    ELSE IF t = FalseText THEN Ok(BoolV(FALSE))
    ELSE Fail("syntax")

CastScalar(t, type) ==
    CASE type = "string" -> Ok(StrV(t))
      [] type = "uint32" -> ParseUint(t)
      [] type = "int" -> ParseInt(t)
      [] type = "bool" -> ParseBool(t)
      [] type = "Role" -> RoleUnmarshalString(t)
      [] type = "Level" -> LevelUnmarshalString(t)
      [] OTHER -> Fail("type")

\* the parts converted one by one, in order; the first failure ends it
RECURSIVE CastParts(_, _, _)
CastParts(parts, type, acc) ==
    IF Len(parts) = 0 THEN Ok(SeqV(acc))
    ELSE LET c == CastScalar(parts[1], type)
         IN  IF c.cause # "" THEN Fail(c.cause)
             ELSE CastParts(Tail(parts), type, Append(acc, c.val))

CastSlice(t, type) ==
    IF Len(t) = 0 THEN Ok(SeqV(<<>>))
    ELSE CastParts(SplitComma(t), type, <<>>)

DefaultCast(from, to) ==
    IF to = "File"
    THEN IF from.k = "file" THEN Ok(from) ELSE Fail("assign")
    ELSE IF from.k # "str" THEN Fail("text")
    ELSE IF IsSlice(to) THEN CastSlice(from.v, Elem(to))
    ELSE CastScalar(from.v, to)

(***************************************************************************)
(* Canonical formatting of a field value by the encoder.                   *)
(***************************************************************************)
\* the text of one sequence element
ElemText(val) ==
    CASE val.k = "str" -> val.v
      [] val.k = "int" -> FormatInt(val.v)
      [] val.k = "uint" -> FormatUint(val.v)
      [] val.k = "bool" -> IF val.v THEN TrueText ELSE FalseText

RECURSIVE ElemTexts(_)
ElemTexts(elems) ==
    IF Len(elems) = 0 THEN <<>>
    ELSE <<ElemText(elems[1])>> \o ElemTexts(Tail(elems))

\* a sequence is delivered as its elements' texts joined by commas; a
\* scalar is delivered as it is and rendered by the sink
FormatValue(val) ==
    IF val.k = "seq" THEN StrV(JoinComma(ElemTexts(val.v))) ELSE val

(***************************************************************************)
(* Record types: the fields of a struct in declaration order, each with    *)
(* its Go type and its struct tag (tag key -> tag value).                  *)
(***************************************************************************)
Field(name, type, tag) == [name |-> name, type |-> type, tag |-> tag]

\* the Params struct of the tests
ParamsType == <<
    Field("Email", "string", "json" :> "email,omitempty"),
    Field("Name", "string", "json" :> "name,omitempty"),
    Field("Language", "string", ("json" :> "-") @@ ("header" :> "accept-language")),
    Field("Page", "uint32", ("json" :> "-") @@ ("query" :> "page") @@ ("form" :> "page")),
    Field("Done", "bool", ("json" :> "-") @@ ("query" :> "done")),
    Field("Role", "Role", ("json" :> "-") @@ ("query" :> "role")),
    Field("Roles", "[]Role", ("json" :> "-") @@ ("query" :> "roles")),
    Field("Filters", "[]string", ("json" :> "-") @@ ("form" :> "filters")),
    Field("Numbers", "[]int", ("json" :> "-") @@ ("form" :> "numbers")),
    Field("Token", "string", ("json" :> "-") @@ ("cookie" :> "token")),
    Field("Document", "File", ("json" :> "-") @@ ("multipart" :> "document")),
    Field("ID", "string", ("json" :> "-") @@ ("path" :> "id")),
    Field("Slug", "string", ("json" :> "-") @@ ("path" :> "slug")) >>

\* the cookie fields of a reply: one per branch of CookiePrinter.SetField
CookieFields == <<
    Field("Session", "string",
          ("json" :> "-") @@ ("cookie" :> "session") @@ ("cookie-path" :> "/app")
          @@ ("cookie-secure" :> "true") @@ ("cookie-samesite" :> "lax")
          @@ ("cookie-expires" :> "Wed, 21 Oct 2026")),
    Field("Theme", "string", ("json" :> "-") @@ ("cookie" :> "theme")),
    Field("Cart", "string",
          ("json" :> "-") @@ ("cookie" :> "cart") @@ ("cookie-secure" :> "TRUE")
          @@ ("cookie-samesite" :> "strict")),
    Field("Track", "string",
          ("json" :> "-") @@ ("cookie" :> "track") @@ ("cookie-secure" :> "false")
          @@ ("cookie-samesite" :> "none") @@ ("cookie-path" :> "")),
    Field("Misc", "string",
          ("json" :> "-") @@ ("cookie" :> "misc") @@ ("cookie-samesite" :> "Lax")),
    Field("Hidden", "string",
          ("json" :> "-") @@ ("header" :> "-") @@ ("cookie" :> "-")) >>

HeaderFields == <<
    Field("Server", "string", ("json" :> "-") @@ ("header" :> "server")),
    Field("Language", "string", ("json" :> "-") @@ ("header" :> "accept-language")) >>

\* a reply struct: two header fields, a Status field of the given Go type
\* declared after the first pos - 1 of them, then the cookie fields
ReplyType(statusType, pos) ==
    SubSeq(HeaderFields, 1, pos - 1)
    \o << Field("Status", statusType, ("json" :> "-") @@ ("header" :> "Status")) >>
    \o SubSeq(HeaderFields, pos, Len(HeaderFields))
    \o CookieFields

ReplyTypes ==
    {ReplyType(st, pos) : st \in {"int", "string"}, pos \in 1..(Len(HeaderFields) + 1)}

\* reflect.StructTag.Get: the tag value, "" when the key is not in the tag
TagGet(field, key) == IF key \in DOMAIN field.tag THEN field.tag[key] ELSE ""

\* reflect.StructTag.Lookup
TagLookup(field, key) ==
    [value |-> TagGet(field, key), ok |-> key \in DOMAIN field.tag]

\* a field takes no part in a namespace when its tag is absent or "-"
Skipped(field, ns) == TagGet(field, ns) \in {"", "-"}

ZeroRec(type) == [i \in 1..Len(type) |-> Zero(type[i].type)]

(***************************************************************************)
(* Errors returned by Scan and Print.                                      *)
(***************************************************************************)
NoErr == [kind |-> "nil", field |-> "", key |-> "", cause |-> ""]

\* the decoder's error: the field, the source key and the underlying cause
ConvErr(field, key, cause) ==
    [kind |-> "conversion", field |-> field, key |-> key, cause |-> cause]

\* the error of a caller-supplied stage that fails
StageErr == [kind |-> "stage", field |-> "", key |-> "", cause |-> "stage failed"]

\* not an error value: the call panicked and never returned
Panicked(key) ==
    [kind |-> "panic", field |-> "", key |-> key,
     cause |-> "expected int for Status header"]

(***************************************************************************)
(* The request: what the scanners are constructed over.                    *)
(***************************************************************************)
NoValues == [key \in {} |-> <<>>]

\* textproto.CanonicalMIMEHeaderKey, on the keys in use
CanonicalHeaderKey(key) ==
    CASE key = "accept-language" -> "Accept-Language"
      [] key = "server" -> "Server"
      [] key = "x-trace" -> "X-Trace"
      [] OTHER -> key

\* http.Header.Get and url.Values.Get: the first value, "" when there is none
HeaderScannerGet(req, key) ==
    LET name == CanonicalHeaderKey(key)
    IN  IF name \in DOMAIN req.header THEN StrV(req.header[name]) ELSE StrV(<<>>)

QueryScannerGet(req, key) ==
    IF key \in DOMAIN req.query THEN StrV(req.query[key]) ELSE StrV(<<>>)

FormScannerGet(req, key) ==
    IF key \in DOMAIN req.form THEN StrV(req.form[key]) ELSE StrV(<<>>)

\* http.Request.PathValue: "" when the pattern has no such wildcard
PathScannerGet(req, key) ==
    IF key \in DOMAIN req.path THEN StrV(req.path[key]) ELSE StrV(<<>>)

\* a lookup that forgets to compare the name
CookieScannerGetAny(req, key) ==
    IF Len(req.cookies) = 0 THEN NilV ELSE StrV(req.cookies[1].Value)

\* the first cookie of that name, nil when there is none
CookieScannerGet(req, key) ==
    LET hits == {i \in 1..Len(req.cookies) : req.cookies[i].Name = key}
    IN  IF hits = {} THEN NilV
        ELSE StrV(req.cookies[CHOOSE i \in hits : \A j \in hits : i <= j].Value)

\* the file of that name, nil when the map has none
MultipartValuesGet(req, key) ==
    IF key \in DOMAIN req.files THEN req.files[key] ELSE NilV

\* a Cast that hands the raw value back unconverted
CastNothing(from, to) == Ok(from)

QueryScannerCast(from, to) == DefaultCast(from, to)

FormScannerCast(from, to) == DefaultCast(from, to)

PathScannerCast(from, to) == DefaultCast(from, to)

Namespaces == {"header", "query", "form", "cookie", "path", "multipart"}

\* the scanners that implement Cast
Casters == {"query", "form", "path"}

SourceGet(ns, req, key) ==
    CASE ns = "header" -> HeaderScannerGet(req, key)
      [] ns = "query" -> QueryScannerGet(req, key)
      [] ns = "form" -> FormScannerGet(req, key)
      [] ns = "path" -> PathScannerGet(req, key)
      [] ns = "cookie" -> CookieScannerGet(req, key)
      [] ns = "multipart" -> MultipartValuesGet(req, key)

\* the source's Cast when it has one, the default policy otherwise
SourceCast(ns, from, to) ==
    CASE ns = "query" -> QueryScannerCast(from, to)
      [] ns = "form" -> FormScannerCast(from, to)
      [] ns = "path" -> PathScannerCast(from, to)
      [] OTHER -> DefaultCast(from, to)

(***************************************************************************)
(* Decoder.Decode of internal/structende.                                  *)
(***************************************************************************)
\* a source has no value for a key when Get returns nil or the empty string
IsAbsent(raw) == raw.k = "nil" \/ (raw.k = "str" /\ Len(raw.v) = 0)

\* fields i.. of the record decoded in declaration order: [rec, err]
RECURSIVE DecodeFrom(_, _, _, _, _)
DecodeFrom(i, ns, req, type, r) ==
    IF i > Len(type) THEN [rec |-> r, err |-> NoErr]
    ELSE IF Skipped(type[i], ns) THEN DecodeFrom(i + 1, ns, req, type, r)
    ELSE LET key == TagGet(type[i], ns)
         IN  Bind(SourceGet(ns, req, key),
                  LAMBDA raw :
                    IF IsAbsent(raw) THEN DecodeFrom(i + 1, ns, req, type, r)
                    ELSE Bind(SourceCast(ns, raw, type[i].type),
                              LAMBDA c :
                                IF c.cause # ""
                                THEN [rec |-> r,
                                      err |-> ConvErr(type[i].name, key, c.cause)]
                                ELSE DecodeFrom(i + 1, ns, req, type,
                                                [r EXCEPT ![i] = c.val])))

Decode(ns, req, type, r) == DecodeFrom(1, ns, req, type, r)

(***************************************************************************)
(* Scanners.                                                               *)
(***************************************************************************)
HeaderScannerScan(req, type, r) == Decode("header", req, type, r)
QueryScannerScan(req, type, r) == Decode("query", req, type, r)
CookieScannerScan(req, type, r) == Decode("cookie", req, type, r)
FormScannerScan(req, type, r) == Decode("form", req, type, r)
PathScannerScan(req, type, r) == Decode("path", req, type, r)
MultipartScannerScan(req, type, r) == Decode("multipart", req, type, r)

\* a Scanner of the caller's that fails and leaves the record alone
FailingScannerScan(req, type, r) == [rec |-> r, err |-> StageErr]

ScannerKinds == Namespaces \cup {"fail"}

\* Scanner.Scan, dispatched on the scanner's dynamic type
ScannerScan(kind, req, type, r) ==
    CASE kind = "header" -> HeaderScannerScan(req, type, r)
      [] kind = "query" -> QueryScannerScan(req, type, r)
      [] kind = "cookie" -> CookieScannerScan(req, type, r)
      [] kind = "form" -> FormScannerScan(req, type, r)
      [] kind = "path" -> PathScannerScan(req, type, r)
      [] kind = "multipart" -> MultipartScannerScan(req, type, r)
      [] kind = "fail" -> FailingScannerScan(req, type, r)

\* one entry of the call log: the method, its key, the pipe stage it ran in
Call(fn, key, i) == [fn |-> fn, key |-> key, i |-> i]

\* PipeScanner.Scan from stage i on: [rec, err, calls]; calls lists the
\* stages whose Scan was invoked
RECURSIVE PipeScanFrom(_, _, _, _, _, _)
PipeScanFrom(i, s, req, type, r, calls) ==
    IF i > Len(s) THEN [rec |-> r, err |-> NoErr, calls |-> calls]
    ELSE Bind(ScannerScan(s[i], req, type, r),
              LAMBDA out :
                LET log == Append(calls, Call("Scan", s[i], i))
                IN  IF out.err # NoErr
                    THEN [rec |-> out.rec, err |-> out.err, calls |-> log]
                    ELSE PipeScanFrom(i + 1, s, req, type, out.rec, log))

\* a pipe that goes on after a failing stage and reports the last outcome
RECURSIVE PipeScanAllFrom(_, _, _, _, _, _)
PipeScanAllFrom(i, s, req, type, r, calls) ==
    IF i > Len(s) THEN [rec |-> r, err |-> NoErr, calls |-> calls]
    ELSE Bind(ScannerScan(s[i], req, type, r),
              LAMBDA out :
                LET log == Append(calls, Call("Scan", s[i], i))
                IN  IF i = Len(s)
                    THEN [rec |-> out.rec, err |-> out.err, calls |-> log]
                    ELSE PipeScanAllFrom(i + 1, s, req, type, out.rec, log))

PipeScannerScanAll(s, req, type, r) == PipeScanAllFrom(1, s, req, type, r, <<>>)

PipeScannerScan(s, req, type, r) == PipeScanFrom(1, s, req, type, r, <<>>)

(***************************************************************************)
(* The response: what the printers are constructed over.                   *)
(***************************************************************************)
StatusOK == 200

\* header and cookies are the header map as Header() returns it (cookies
\* its Set-Cookie lines, in order); sentHeader and sentCookies are what the
\* transport has put on the wire when the status was finalized
FreshResp ==
    [header |-> NoValues, cookies |-> <<>>, body |-> <<>>, status |-> StatusOK,
     wrote |-> FALSE, sentHeader |-> NoValues, sentCookies |-> <<>>]

\* http.ResponseWriter.WriteHeader: the first call finalizes the status and
\* sends the header as it is then; a later call is ignored
WriteHeader(w, code) ==
    IF w.wrote THEN w
    ELSE [w EXCEPT !.wrote = TRUE, !.status = code,
                   !.sentHeader = w.header, !.sentCookies = w.cookies]

\* w.Header().Set(key, value)
HeaderMapSet(w, key, text) ==
    [w EXCEPT !.header = (CanonicalHeaderKey(key) :> text) @@ w.header]

\* http.SetCookie(w, cookie): one more Set-Cookie line
SetCookie(w, cookie) == [w EXCEPT !.cookies = Append(w.cookies, cookie)]

\* fmt.Sprintf("%s", value)
Sprintf(value) ==
    CASE value.k = "str" -> value.v
      [] value.k = "int" -> <<"%!s(int=">> \o FormatInt(value.v) \o <<")">>
      [] value.k = "uint" -> <<"%!s(uint32=">> \o FormatUint(value.v) \o <<")">>
      [] value.k = "bool" -> <<"%!s(bool=">> \o ElemText(value) \o <<")">>
      [] value.k = "nil" -> <<"%!s(<nil>)">>

(***************************************************************************)
(* Printers.  A printer's result is [w, err, calls].                       *)
(***************************************************************************)
\* a Set without the Status directive: every key is a header
HeaderPrinterSetHeaderOnly(w, key, value, i) ==
    [w |-> HeaderMapSet(w, key, Sprintf(value)), err |-> NoErr,
     calls |-> <<Call("Header.Set", key, i)>>]

\* a Set that lets a Status that is no int through as a header
HeaderPrinterSetNoPanic(w, key, value, i) ==
    IF key = "Status" /\ value.k = "int"
    THEN [w |-> WriteHeader(w, value.v), err |-> NoErr,
          calls |-> <<Call("WriteHeader", key, i)>>]
    ELSE [w |-> HeaderMapSet(w, key, Sprintf(value)), err |-> NoErr,
          calls |-> <<Call("Header.Set", key, i)>>]

\* HeaderPrinter.Set
HeaderPrinterSet(w, key, value, i) ==
    IF key = "Status"
    THEN IF value.k = "int"
         THEN [w |-> WriteHeader(w, value.v), err |-> NoErr,
               calls |-> <<Call("WriteHeader", key, i)>>]
         ELSE [w |-> w, err |-> Panicked(key), calls |-> <<>>]
    ELSE [w |-> HeaderMapSet(w, key, Sprintf(value)), err |-> NoErr,
          calls |-> <<Call("Header.Set", key, i)>>]

\* CookiePrinter.Set
CookiePrinterSet(w, key, value, i) == [w |-> w, err |-> NoErr, calls |-> <<>>]

SameSiteDefaultMode == 1
SameSiteLaxMode == 2
SameSiteStrictMode == 3
SameSiteNoneMode == 4

\* a SetField that takes any cookie-secure tag for true
CookiePrinterSetFieldSecureAny(w, key, value, field, i) ==
    LET pathTag == TagLookup(field, "cookie-path")
        cookie == [Name |-> key, Value |-> Sprintf(value),
                   Path |-> IF ~pathTag.ok THEN "/" ELSE pathTag.value,
                   Secure |-> TagLookup(field, "cookie-secure").ok,
                   SameSite |-> 0, RawExpires |-> TagGet(field, "cookie-expires")]
    IN  [w |-> SetCookie(w, cookie), err |-> NoErr,
         calls |-> <<Call("SetCookie", key, i)>>]

\* CookiePrinter.SetField
CookiePrinterSetField(w, key, value, field, i) ==
    LET pathTag == TagLookup(field, "cookie-path")
        path == IF ~pathTag.ok THEN "/" ELSE pathTag.value
        secureTag == TagLookup(field, "cookie-secure")
        secure == secureTag.ok /\ secureTag.value = "true"
        sameTag == TagLookup(field, "cookie-samesite")
        samesite ==
            IF ~sameTag.ok THEN 0
            ELSE CASE sameTag.value = "lax" -> SameSiteLaxMode
                   [] sameTag.value = "strict" -> SameSiteStrictMode
                   [] sameTag.value = "none" -> SameSiteNoneMode
                   [] OTHER -> SameSiteDefaultMode
        expiresTag == TagLookup(field, "cookie-expires")
        expires == IF ~expiresTag.ok THEN "" ELSE expiresTag.value
        cookie == [Name |-> key, Value |-> Sprintf(value), Path |-> path,
                   Secure |-> secure, SameSite |-> samesite, RawExpires |-> expires]
    IN  [w |-> SetCookie(w, cookie), err |-> NoErr,
         calls |-> <<Call("SetCookie", key, i)>>]

\* what json tag values say: the name before the comma, and omitempty
JsonName(field) ==
    LET tag == TagGet(field, "json")
    IN  CASE tag = "email,omitempty" -> "email"
          [] tag = "name,omitempty" -> "name"
          [] tag = "" -> field.name
          [] OTHER -> tag

JsonOmitEmpty(field) == TagGet(field, "json") \in {"email,omitempty", "name,omitempty"}

\* the members of the document json.Encoder writes for the record
RECURSIVE JsonMembers(_, _, _)
JsonMembers(i, type, r) ==
    IF i > Len(type) THEN <<>>
    ELSE IF TagGet(type[i], "json") = "-"
            \/ (JsonOmitEmpty(type[i]) /\ r[i] = Zero(type[i].type))
    THEN JsonMembers(i + 1, type, r)
    ELSE <<[name |-> JsonName(type[i]), value |-> r[i]]>> \o JsonMembers(i + 1, type, r)

JsonDocument(type, r) == [k |-> "json", v |-> JsonMembers(1, type, r)]

Newline == [k |-> "text", v |-> <<"\n">>]

\* a JSON printer that writes the document without the newline
JSONPrinterPrintNoNewline(w, type, r, i) ==
    [w |-> [w EXCEPT !.body = Append(w.body, JsonDocument(type, r))],
     err |-> NoErr, calls |-> <<Call("Write", "", i)>>]

\* JSONPrinter.Print: the document, then a newline, written to the body
JSONPrinterPrint(w, type, r, i) ==
    [w |-> [w EXCEPT !.body = w.body \o <<JsonDocument(type, r), Newline>>],
     err |-> NoErr, calls |-> <<Call("Write", "", i)>>]

(***************************************************************************)
(* Encoder.Encode of internal/structende.                                  *)
(***************************************************************************)
\* the sinks that implement SetField
FieldSetters == {"cookie"}

SinkSet(sink, w, key, value, i) ==
    IF sink = "header" THEN HeaderPrinterSet(w, key, value, i)
    ELSE CookiePrinterSet(w, key, value, i)

SinkSetField(sink, w, key, value, field, i) ==
    CookiePrinterSetField(w, key, value, field, i)

\* fields j.. of the record delivered in declaration order, through SetField
\* when the sink has it and through Set otherwise; a panic of the sink
\* ends the pass
RECURSIVE EncodeFrom(_, _, _, _, _, _, _)
EncodeFrom(j, sink, type, r, w, i, calls) ==
    IF j > Len(type) THEN [w |-> w, err |-> NoErr, calls |-> calls]
    ELSE IF Skipped(type[j], sink) THEN EncodeFrom(j + 1, sink, type, r, w, i, calls)
    ELSE LET key == TagGet(type[j], sink)
             value == FormatValue(r[j])
             viaField == sink \in FieldSetters
             log == Append(calls, Call(IF viaField THEN "SetField" ELSE "Set", key, i))
         IN  Bind(IF viaField THEN SinkSetField(sink, w, key, value, type[j], i)
                  ELSE SinkSet(sink, w, key, value, i),
                  LAMBDA out :
                    IF out.err # NoErr
                    THEN [w |-> out.w, err |-> out.err, calls |-> log \o out.calls]
                    ELSE EncodeFrom(j + 1, sink, type, r, out.w, i, log \o out.calls))

Encode(sink, type, r, w, i) == EncodeFrom(1, sink, type, r, w, i, <<>>)

HeaderPrinterPrint(w, type, r, i) == Encode("header", type, r, w, i)

\* a cookie printer that encodes under the header namespace
CookiePrinterPrintAsHeader(w, type, r, i) == Encode("header", type, r, w, i)

CookiePrinterPrint(w, type, r, i) == Encode("cookie", type, r, w, i)

\* a Printer of the caller's that fails and leaves the response alone
FailingPrinterPrint(w, type, r, i) == [w |-> w, err |-> StageErr, calls |-> <<>>]

PrinterKinds == {"json", "header", "cookie", "fail"}

\* Printer.Print, dispatched on the printer's dynamic type
PrinterPrint(kind, w, type, r, i) ==
    CASE kind = "json" -> JSONPrinterPrint(w, type, r, i)
      [] kind = "header" -> HeaderPrinterPrint(w, type, r, i)
      [] kind = "cookie" -> CookiePrinterPrint(w, type, r, i)
      [] kind = "fail" -> FailingPrinterPrint(w, type, r, i)

\* PipePrinter.Print from stage i on: [w, err, calls]; a panic of a stage
\* unwinds through the loop like an error that cannot be handled
RECURSIVE PipePrintFrom(_, _, _, _, _, _)
PipePrintFrom(i, s, w, type, r, calls) ==
    IF i > Len(s) THEN [w |-> w, err |-> NoErr, calls |-> calls]
    ELSE Bind(PrinterPrint(s[i], w, type, r, i),
              LAMBDA out :
                LET log == Append(calls, Call("Print", s[i], i)) \o out.calls
                IN  IF out.err # NoErr
                    THEN [w |-> out.w, err |-> out.err, calls |-> log]
                    ELSE PipePrintFrom(i + 1, s, out.w, type, r, log))

PipePrinterPrint(s, w, type, r) == PipePrintFrom(1, s, w, type, r, <<>>)

(***************************************************************************)
(* Inputs: requests, records, pipes.                                       *)
(***************************************************************************)
En == <<"e", "n">>
Admin == <<"a", "d", "m", "i", "n">>
User == <<"u", "s", "e", "r">>

QuerySources ==
    { NoValues,
      ("page" :> <<"2">>) @@ ("done" :> TrueText) @@ ("role" :> Admin)
      @@ ("roles" :> Admin \o <<Comma>> \o User) @@ ("-" :> <<"x">>) @@ ("" :> <<"y">>),
      ("page" :> <<"7">>) @@ ("done" :> <<"a">>) @@ ("role" :> User) @@ ("roles" :> User),
      ("page" :> <<"a", "b", "c">>) @@ ("done" :> FalseText) }

FormSources ==
    { NoValues,
      ("filters" :> <<"s", "e", Comma, "m", "o">>) @@ ("numbers" :> <<"6", Comma, "7", Comma, "8">>),
      ("page" :> <<"3">>) @@ ("filters" :> <<"a">>) @@ ("numbers" :> <<"6", Comma, "x">>) }

\* the sources the other scanners read, all empty or all filled
OtherSources ==
    { [header |-> NoValues, cookies |-> <<>>, path |-> NoValues, files |-> NoValues],
      [header |-> ("Accept-Language" :> En) @@ ("Server" :> <<"s">>)
                  @@ ("Status" :> <<"4", "0", "4">>) @@ ("-" :> <<"x">>) @@ ("" :> <<"y">>),
       cookies |-> << [Name |-> "-", Value |-> <<"x">>],
                      [Name |-> "token", Value |-> <<"t", "1">>],
                      [Name |-> "token", Value |-> <<"t", "2">>] >>,
       path |-> ("id" :> <<"i", "d">>) @@ ("slug" :> <<"s", "l">>),
       files |-> ("document" :> FileV(<<"doc">>))] }

Requests ==
    { [header |-> o.header, query |-> q, form |-> f,
       cookies |-> o.cookies, path |-> o.path, files |-> o.files] :
      q \in QuerySources, f \in FormSources, o \in OtherSources }

EmptyReq ==
    [header |-> NoValues, query |-> NoValues, form |-> NoValues,
     cookies |-> <<>>, path |-> NoValues, files |-> NoValues]

\* a value of the field's type that is not its zero value
NonZero(field) ==
    CASE field.type = "string" -> StrV(<<field.name>>)
      [] field.type = "uint32" -> UintV(9)
      [] field.type = "int" -> IntV(201)
      [] field.type = "bool" -> BoolV(TRUE)
      [] field.type = "Role" -> RoleV(<<field.name>>)
      [] field.type = "Level" -> LevelV(<<"a">>)
      [] field.type = "File" -> FileV(<<"old">>)
      [] field.type = "[]string" -> SeqV(<<StrV(<<field.name>>)>>)
      [] field.type = "[]int" -> SeqV(<<IntV(5)>>)
      [] field.type = "[]Role" -> SeqV(<<RoleV(<<field.name>>)>>)
      [] field.type = "[]Level" -> SeqV(<<LevelV(<<"a">>)>>)

FullRec(type) == [i \in 1..Len(type) |-> NonZero(type[i])]

\* the record TestPipePrinter prints
TestParams ==
    [i \in 1..Len(ParamsType) |->
        CASE ParamsType[i].name = "Email" -> StrV(<<"t", "@", "e">>)
          [] ParamsType[i].name = "Language" -> StrV(En)
          [] ParamsType[i].name = "Token" -> StrV(<<"a", "c", "c">>)
          [] OTHER -> Zero(ParamsType[i].type)]

DecodeTypes == {ParamsType, ReplyType("int", 2)}

EncodeTypes == {ParamsType} \cup ReplyTypes

EncodeRecs(type) ==
    {FullRec(type)} \cup (IF type = ParamsType THEN {TestParams} ELSE {})

SeqsUpTo(S, n) == UNION {[1..m -> S] : m \in 0..n}

ScanPipes == SeqsUpTo(ScannerKinds, MaxScanners)

PrintPipes == SeqsUpTo(PrinterKinds, MaxPrinters)

\* the arguments of a direct call of HeaderPrinter.Set
SetKeys == {"Status", "x-trace"}
SetValues == {IntV(404), StrV(<<"o", "k">>)}

\* the types and texts a cast is tried on
CastTypes == (ScalarTypes \ {"File"}) \cup SliceTypes

CastTexts == Texts \cup {TrueText, FalseText, Admin, Admin \o <<Comma>> \o User}

(***************************************************************************)
(* State.                                                                  *)
(***************************************************************************)
VARIABLES
    dir,      \* "decode": scanners over a request; "encode": printers over a
              \* response; "cast": a conversion on its own
    typ,      \* the record's struct type
    rec,      \* the record: field index -> value
    req,      \* the request the scanners read
    resp,     \* the response the printers write
    err,      \* what the last call returned
    op,       \* the last call: its name, its pipe, its key and value
    calls,    \* the calls the last call made, in order
    used,     \* whether the record has been scanned or printed
    sets,     \* the calls of HeaderPrinter.Set made by hand on the response
    castIn,   \* the text and the type of a conversion
    castOut   \* its result, and the result encoded again

vars == <<dir, typ, rec, req, resp, err, op, calls, used, sets, castIn, castOut>>

NoOp == [name |-> "none", pipe |-> <<>>, key |-> "", val |-> NilV]

Op(name, pipe) == [name |-> name, pipe |-> pipe, key |-> "", val |-> NilV]

NoCast == [text |-> <<>>, type |-> "string"]

Idle == [state |-> "idle", by |-> "", res |-> Fail(""), back |-> <<>>]

InitDecode ==
    /\ dir = "decode"
    /\ typ \in DecodeTypes
    /\ req \in Requests
    /\ rec \in {ZeroRec(typ), FullRec(typ)}
    /\ resp = FreshResp

InitEncode ==
    /\ dir = "encode"
    /\ typ \in EncodeTypes
    /\ req = EmptyReq
    /\ rec \in EncodeRecs(typ)
    /\ resp = FreshResp

Init ==
    /\ InitDecode \/ InitEncode
    /\ err = NoErr
    /\ op = NoOp
    /\ calls = <<>>
    /\ used = FALSE
    /\ sets = 0
    /\ castIn = NoCast
    /\ castOut = Idle

\* a handler decodes its request into the record with one call
CanScan == dir = "decode" /\ ~used

\* one scanner's Scan on the record
ScanOne(kind) ==
    /\ CanScan
    /\ LET out == ScannerScan(kind, req, typ, rec)
       IN  /\ rec' = out.rec
           /\ err' = out.err
    /\ op' = Op("Scan", <<kind>>)
    /\ calls' = <<Call("Scan", kind, 0)>>
    /\ used' = TRUE
    /\ UNCHANGED <<dir, typ, req, resp, sets, castIn, castOut>>

\* PipeScanner.Scan on the record
PipeScan(s) ==
    /\ CanScan
    /\ LET out == PipeScannerScan(s, req, typ, rec)
       IN  /\ rec' = out.rec
           /\ err' = out.err
           /\ calls' = out.calls
    /\ op' = Op("PipeScan", s)
    /\ used' = TRUE
    /\ UNCHANGED <<dir, typ, req, resp, sets, castIn, castOut>>

\* a handler encodes the record into the response with one call, while it
\* has not panicked
CanPrint == dir = "encode" /\ err.kind # "panic" /\ ~used

CanSet == dir = "encode" /\ err.kind # "panic" /\ sets < MaxSets

\* one printer's Print of the record
PrintOne(kind) ==
    /\ CanPrint
    /\ LET out == PrinterPrint(kind, resp, typ, rec, 0)
       IN  /\ resp' = out.w
           /\ err' = out.err
           /\ calls' = out.calls
    /\ op' = Op("Print", <<kind>>)
    /\ used' = TRUE
    /\ UNCHANGED <<dir, typ, rec, req, sets, castIn, castOut>>

\* PipePrinter.Print of the record
PipePrint(s) ==
    /\ CanPrint
    /\ LET out == PipePrinterPrint(s, resp, typ, rec)
       IN  /\ resp' = out.w
           /\ err' = out.err
           /\ calls' = out.calls
    /\ op' = Op("PipePrint", s)
    /\ used' = TRUE
    /\ UNCHANGED <<dir, typ, rec, req, sets, castIn, castOut>>

\* HeaderPrinter.Set called by hand
SetHeader(key, value) ==
    /\ CanSet
    /\ LET out == HeaderPrinterSet(resp, key, value, 0)
       IN  /\ resp' = out.w
           /\ err' = out.err
           /\ calls' = out.calls
    /\ op' = [name |-> "Set", pipe |-> <<>>, key |-> key, val |-> value]
    /\ sets' = sets + 1
    /\ UNCHANGED <<dir, typ, rec, req, used, castIn, castOut>>

Next ==
    \/ \E kind \in Namespaces : ScanOne(kind)
    \/ \E s \in ScanPipes : PipeScan(s)
    \/ \E kind \in PrinterKinds \ {"fail"} : PrintOne(kind)
    \/ \E s \in PrintPipes : PipePrint(s)
    \/ \E key \in SetKeys, value \in SetValues : SetHeader(key, value)

Spec == Init /\ [][Next]_vars

(***************************************************************************)
(* A conversion on its own: a text cast to a type by a scanner's Cast,     *)
(* and the value encoded again.                                            *)
(***************************************************************************)
InitCast ==
    /\ dir = "cast"
    /\ typ = ParamsType
    /\ rec = ZeroRec(ParamsType)
    /\ req = EmptyReq
    /\ resp = FreshResp
    /\ err = NoErr
    /\ op = NoOp
    /\ calls = <<>>
    /\ used = FALSE
    /\ sets = 0
    /\ castIn \in [text : CastTexts, type : CastTypes]
    /\ castOut = Idle

Cast(ns) ==
    /\ castOut.state = "idle"
    /\ castOut' = [state |-> "cast", by |-> ns,
                   res |-> SourceCast(ns, StrV(castIn.text), castIn.type),
                   back |-> <<>>]
    /\ UNCHANGED <<dir, typ, rec, req, resp, err, op, calls, used, sets, castIn>>

\* the types whose values the encoder has a text for: Role and Level have
\* a parser and no formatter
Formattable == {"string", "uint32", "int", "bool", "[]string", "[]int"}

\* the value as the encoder delivers it and the sink renders it
Reencode ==
    /\ castOut.state = "cast"
    /\ castOut.res.cause = ""
    /\ castIn.type \in Formattable
    /\ castOut' = [castOut EXCEPT !.state = "encoded",
                                  !.back = Sprintf(FormatValue(castOut.res.val))]
    /\ UNCHANGED <<dir, typ, rec, req, resp, err, op, calls, used, sets, castIn>>

NextCast ==
    \/ \E ns \in Casters : Cast(ns)
    \/ Reencode

SpecCast == InitCast /\ [][NextCast]_vars

(***************************************************************************)
(* Vocabulary of the properties.                                           *)
(***************************************************************************)
Fields == 1..Len(typ)

\* whether the request holds a value under the key in that namespace
HasValue(ns, key) ==
    CASE ns = "header" -> CanonicalHeaderKey(key) \in DOMAIN req.header
      [] ns = "query" -> key \in DOMAIN req.query
      [] ns = "form" -> key \in DOMAIN req.form
      [] ns = "path" -> key \in DOMAIN req.path
      [] ns = "cookie" -> \E i \in 1..Len(req.cookies) : req.cookies[i].Name = key
      [] ns = "multipart" -> key \in DOMAIN req.files

\* the value the request holds under the key
ValueOf(ns, key) ==
    CASE ns = "header" -> StrV(req.header[CanonicalHeaderKey(key)])
      [] ns = "query" -> StrV(req.query[key])
      [] ns = "form" -> StrV(req.form[key])
      [] ns = "path" -> StrV(req.path[key])
      [] ns = "cookie" ->
            StrV(req.cookies[CHOOSE i \in 1..Len(req.cookies) :
                    /\ req.cookies[i].Name = key
                    /\ \A j \in 1..(i - 1) : req.cookies[j].Name # key].Value)
      [] ns = "multipart" -> req.files[key]

\* the record after the first j stages of a pipe of scanners, run on r
RECURSIVE ScanPrefix(_, _, _)
ScanPrefix(s, j, r) ==
    IF j = 0 THEN r
    ELSE Bind(ScanPrefix(s, j - 1, r), LAMBDA q : ScannerScan(s[j], req, typ, q).rec)

\* what stage j of a pipe of scanners returns when the pipe is run on r
ScanStageErr(s, j, r) ==
    Bind(ScanPrefix(s, j - 1, r), LAMBDA q : ScannerScan(s[j], req, typ, q).err)

\* the response after the first j stages of a pipe of printers, run on w
RECURSIVE PrintPrefix(_, _, _)
PrintPrefix(s, j, w) ==
    IF j = 0 THEN w
    ELSE Bind(PrintPrefix(s, j - 1, w), LAMBDA q : PrinterPrint(s[j], q, typ, rec, j).w)

PrintStageErr(s, j, w) ==
    Bind(PrintPrefix(s, j - 1, w), LAMBDA q : PrinterPrint(s[j], q, typ, rec, j).err)

\* the calls of the log made by the named methods
CallsOf(log, fns) == SelectSeq(log, LAMBDA c : c.fn \in fns)

\* a pipe of n stages invoked stages 1..k of s in order, and no other
InvokedInOrder(log, fn, s, k) ==
    /\ Len(log) = k
    /\ \A i \in 1..k : log[i] = Call(fn, s[i], i)

(***************************************************************************)
(* C1: PipeScanner.Scan and PipePrinter.Print run their stages in the      *)
(* given order on the same record; at the first stage that returns an      *)
(* error the pipe returns that error and invokes no later stage; the pipe  *)
(* returns nil only when every stage was run and returned nil.             *)
(***************************************************************************)
C1_ScanStep ==
    op'.name = "PipeScan" =>
        LET s == op'.pipe
            k == Len(calls')
        IN  /\ k <= Len(s)
            /\ InvokedInOrder(calls', "Scan", s, k)
            /\ \A j \in 1..(k - 1) : ScanStageErr(s, j, rec) = NoErr
            /\ rec' = ScanPrefix(s, k, rec)
            /\ IF err' = NoErr
               THEN k = Len(s) /\ \A j \in 1..k : ScanStageErr(s, j, rec) = NoErr
               ELSE k >= 1 /\ err' = ScanStageErr(s, k, rec)

C1_PrintStep ==
    op'.name = "PipePrint" =>
        LET s == op'.pipe
            stages == CallsOf(calls', {"Print"})
            k == Len(stages)
        IN  /\ k <= Len(s)
            /\ InvokedInOrder(stages, "Print", s, k)
            /\ \A j \in 1..(k - 1) : PrintStageErr(s, j, resp) = NoErr
            /\ resp' = PrintPrefix(s, k, resp)
            /\ rec' = rec
            /\ IF err' = NoErr
               THEN k = Len(s) /\ \A j \in 1..k : PrintStageErr(s, j, resp) = NoErr
               ELSE k >= 1 /\ err' = PrintStageErr(s, k, resp)

C1_PipeStopsAtFirstError == [][C1_ScanStep /\ C1_PrintStep]_vars

\* a pipe of two scanners whose first stage failed to convert a value: the
\* error is returned and the second stage was not invoked
C1_Witness ==
    /\ op.name = "PipeScan"
    /\ Len(op.pipe) >= 2
    /\ op.pipe[1] = "query"
    /\ Len(calls) = 1
    /\ err.kind = "conversion"

(***************************************************************************)
(* C2: when the conversion of a field's raw value fails, decode stops at   *)
(* that field and returns an error naming it; the fields before it in      *)
(* plan order that were assigned keep their new values, the failing field  *)
(* and those after it keep the values they had before the call.            *)
(***************************************************************************)
\* the field takes part in the namespace and the request has a text for it
Present(ns, i) ==
    /\ ~Skipped(typ[i], ns)
    /\ HasValue(ns, TagGet(typ[i], ns))
    /\ ~IsAbsent(ValueOf(ns, TagGet(typ[i], ns)))

Converted(ns, i) == DefaultCast(ValueOf(ns, TagGet(typ[i], ns)), typ[i].type)

FailsAt(ns, i) == Present(ns, i) /\ Converted(ns, i).cause # ""

C2_Step ==
    (op'.name = "Scan" /\ op'.pipe[1] \in Namespaces) =>
        LET ns == op'.pipe[1]
        IN  \A f \in Fields :
                (FailsAt(ns, f) /\ \A i \in 1..(f - 1) : ~FailsAt(ns, i)) =>
                    /\ err' = ConvErr(typ[f].name, TagGet(typ[f], ns), Converted(ns, f).cause)
                    /\ \A i \in 1..(f - 1) :
                          rec'[i] = IF Present(ns, i) THEN Converted(ns, i).val ELSE rec[i]
                    /\ \A i \in f..Len(typ) : rec'[i] = rec[i]

C2_NoRollbackOnConversionError == [][C2_Step]_vars

\* the query scanner failed at Done after it had assigned Page; Role, which
\* the query also names, is as it was in a fresh record
C2_Witness ==
    /\ typ = ParamsType
    /\ op = Op("Scan", <<"query">>)
    /\ err.kind = "conversion"
    /\ err.field = "Done"
    /\ rec[4] = UintV(7)
    /\ rec[6] = RoleV(<<>>)
    /\ "role" \in DOMAIN req.query

(***************************************************************************)
(* C3: a field whose key the source has no value for is left as it was     *)
(* before the call (zero in a fresh record, or what an earlier scanner of  *)
(* a pipe wrote), and Scan returns no error because of it; so for the      *)
(* unsigned field Page when the form has no "page".                        *)
(***************************************************************************)
Missing(ns, i) == ~Skipped(typ[i], ns) /\ ~HasValue(ns, TagGet(typ[i], ns))

C3_ScanStep ==
    (op'.name = "Scan" /\ op'.pipe[1] \in Namespaces) =>
        LET ns == op'.pipe[1]
        IN  /\ \A i \in Fields : Missing(ns, i) => rec'[i] = rec[i]
            /\ err' # NoErr =>
                  \E i \in Fields : err'.field = typ[i].name /\ ~Missing(ns, i)

C3_PipeStep ==
    (op'.name = "PipeScan" /\ Len(calls') >= 1 /\ op'.pipe[Len(calls')] \in Namespaces) =>
        LET s == op'.pipe
            k == Len(calls')
            before == ScanPrefix(s, k - 1, rec)
        IN  /\ \A i \in Fields : Missing(s[k], i) => rec'[i] = before[i]
            /\ err' # NoErr =>
                  \E i \in Fields : err'.field = typ[i].name /\ ~Missing(s[k], i)

C3_AbsentKeyLeavesField == [][C3_ScanStep /\ C3_PipeStep]_vars

\* the query scanner wrote Page, then the form scanner, whose form has
\* filters but no page, ran without error and Page is still the query's
C3_Witness ==
    /\ typ = ParamsType
    /\ op = Op("PipeScan", <<"query", "form">>)
    /\ err = NoErr
    /\ "page" \notin DOMAIN req.form
    /\ "filters" \in DOMAIN req.form
    /\ Len(rec[8].v) = 2
    /\ rec[4] = UintV(2)

(***************************************************************************)
(* C4: a field whose tag for a namespace is absent or "-" is never changed *)
(* by decoding from a source of that namespace, and encoding to a sink of  *)
(* that namespace never calls Set or SetField for it.                      *)
(***************************************************************************)
\* the keys of the fields that take part in the namespace, in plan order
RECURSIVE PlanKeys(_, _)
PlanKeys(ns, i) ==
    IF i > Len(typ) THEN <<>>
    ELSE IF TagGet(typ[i], ns) \in {"", "-"} THEN PlanKeys(ns, i + 1)
    ELSE <<TagGet(typ[i], ns)>> \o PlanKeys(ns, i + 1)

\* the keys the sink was called with by stage j, in order
SinkKeys(log, j) ==
    LET hits == SelectSeq(log, LAMBDA c : c.fn \in {"Set", "SetField"} /\ c.i = j)
    IN  [n \in 1..Len(hits) |-> hits[n].key]

IsPrefix(a, b) == Len(a) <= Len(b) /\ \A n \in 1..Len(a) : a[n] = b[n]

C4_DecodeStep ==
    op'.name \in {"Scan", "PipeScan"} =>
        \A i \in Fields :
            (\A n \in 1..Len(calls') : TagGet(typ[i], calls'[n].key) \in {"", "-"})
                => rec'[i] = rec[i]

C4_EncodeStep ==
    op'.name \in {"Print", "PipePrint"} =>
        \A n \in 1..Len(op'.pipe) :
            LET sink == op'.pipe[n]
                j == IF op'.name = "Print" THEN 0 ELSE n
                keys == SinkKeys(calls', j)
            IN  sink \in {"header", "cookie"} =>
                    /\ IsPrefix(keys, PlanKeys(sink, 1))
                    /\ (err' = NoErr => keys = PlanKeys(sink, 1))

C4_SkippedFieldsUntouched == [][C4_DecodeStep /\ C4_EncodeStep]_vars

\* the header scanner filled a reply from a header that has values under
\* "-" and "": Hidden, tagged header:"-", and the cookie fields are as before
C4_Witness ==
    /\ typ = ReplyType("int", 2)
    /\ op = Op("Scan", <<"header">>)
    /\ {"-", ""} \subseteq DOMAIN req.header
    /\ rec[2] = IntV(404)
    /\ rec[3] = StrV(En)
    /\ rec[9] \in {Zero("string"), NonZero(typ[9])}
    /\ typ[9].name = "Hidden"

(***************************************************************************)
(* C5: HeaderPrinter.Set given "Status" and an int finalizes the status    *)
(* with that code and sets no header named "Status"; once the status is    *)
(* finalized no header set later is observable; so one pass of the header  *)
(* printer over a record with an int Status field leaves on the wire       *)
(* exactly the header fields declared before Status.                       *)
(***************************************************************************)
\* the fields of the type named Status that have the given kind of type
StatusFields(isInt) ==
    {p \in Fields : typ[p].name = "Status" /\ ((typ[p].type = "int") = isInt)}

\* the header fields declared before field p, as name -> text
HeadersBefore(p) ==
    LET idx == {i \in 1..(p - 1) : ~Skipped(typ[i], "header")}
    IN  [name \in {CanonicalHeaderKey(TagGet(typ[i], "header")) : i \in idx} |->
            Sprintf(rec[CHOOSE i \in idx :
                        CanonicalHeaderKey(TagGet(typ[i], "header")) = name])]

C5_SetStep ==
    (op'.name = "Set" /\ op'.key = "Status" /\ op'.val.k = "int") =>
        /\ err' = NoErr
        /\ calls' = <<Call("WriteHeader", "Status", 0)>>
        /\ resp'.header = resp.header
        /\ ~resp.wrote =>
              /\ resp'.wrote
              /\ resp'.status = op'.val.v
              /\ resp'.sentHeader = resp.header

C5_Sealed ==
    resp.wrote =>
        /\ resp'.wrote
        /\ resp'.status = resp.status
        /\ resp'.sentHeader = resp.sentHeader
        /\ resp'.sentCookies = resp.sentCookies

C5_PassStep ==
    (op' = Op("Print", <<"header">>) /\ ~resp.wrote) =>
        \A p \in StatusFields(TRUE) :
            /\ err' = NoErr
            /\ resp'.wrote
            /\ resp'.status = rec[p].v
            /\ resp'.sentHeader = HeadersBefore(p) @@ resp.header
            /\ CallsOf(calls', {"WriteHeader"}) = <<Call("WriteHeader", "Status", 0)>>
            /\ \A i \in (p + 1)..Len(typ) :
                  ~Skipped(typ[i], "header") =>
                      LET name == CanonicalHeaderKey(TagGet(typ[i], "header"))
                      IN  /\ name \in DOMAIN resp'.header
                          /\ name \notin DOMAIN resp'.sentHeader

C5_StatusDirective ==
    [][/\ C5_SetStep
       /\ C5_Sealed
       /\ C5_PassStep
       /\ "Status" \notin DOMAIN resp'.header]_vars

\* one pass over a reply whose int Status is declared between Server and
\* Language: the status is 201, Server is on the wire, Language was set on
\* the header map too late to be
C5_Witness ==
    /\ typ = ReplyType("int", 2)
    /\ op = Op("Print", <<"header">>)
    /\ err = NoErr
    /\ resp.wrote
    /\ resp.status = 201
    /\ DOMAIN resp.sentHeader = {"Server"}
    /\ "Accept-Language" \in DOMAIN resp.header

(***************************************************************************)
(* C6: printing Params through a pipe of the JSON printer, the header      *)
(* printer and the cookie printer on a fresh response returns no error;    *)
(* the body is the serialized document followed by a newline, the header   *)
(* Accept-Language is the Language field's value, and there is one cookie, *)
(* named token, with the Token field's value and the path "/".             *)
(***************************************************************************)
\* the member the document has for a field with omitempty, if any
MemberOf(name, i) ==
    IF rec[i].v = <<>> THEN <<>> ELSE <<[name |-> name, value |-> rec[i]]>>

C6_TestPipePrinter ==
    (/\ typ = ParamsType
     /\ op = Op("PipePrint", <<"json", "header", "cookie">>)
     /\ sets = 0) =>
        /\ err = NoErr
        /\ Len(resp.body) = 2
        /\ resp.body[1].k = "json"
        /\ resp.body[1].v = MemberOf("email", 1) \o MemberOf("name", 2)
        /\ resp.body[2] = [k |-> "text", v |-> <<"\n">>]
        /\ DOMAIN resp.header = {"Accept-Language"}
        /\ resp.header["Accept-Language"] = rec[3].v
        /\ Len(resp.cookies) = 1
        /\ resp.cookies[1].Name = "token"
        /\ resp.cookies[1].Value = rec[10].v
        /\ resp.cookies[1].Path = "/"

\* the record of TestPipePrinter, printed
C6_Witness ==
    /\ typ = ParamsType
    /\ rec = TestParams
    /\ op = Op("PipePrint", <<"json", "header", "cookie">>)
    /\ sets = 0
    /\ resp.body[1].v = <<[name |-> "email", value |-> StrV(<<"t", "@", "e">>)]>>
    /\ resp.header["Accept-Language"] = En
    /\ resp.cookies[1].Value = <<"a", "c", "c">>

(***************************************************************************)
(* C8: the cookie printer delivers every cookie field through SetField and *)
(* never through Set, and emits one cookie per such field: its name the    *)
(* tag key, its value the field's text, its path the cookie-path tag or    *)
(* "/" without one, secure only for cookie-secure "true", same-site lax,   *)
(* strict or none for those tag values and the default mode for any other, *)
(* and cookie-expires passed through as it is.                             *)
(***************************************************************************)
\* the indices of the fields that take part in the cookie namespace
CookieIdx == SelectSeq([i \in Fields |-> i], LAMBDA i : TagGet(typ[i], "cookie") \notin {"", "-"})

Has(i, key) == key \in DOMAIN typ[i].tag

C8_CookieOf(c, i) ==
    /\ c.Name = typ[i].tag["cookie"]
    /\ c.Value = rec[i].v
    /\ c.Path = IF Has(i, "cookie-path") THEN typ[i].tag["cookie-path"] ELSE "/"
    /\ c.Secure = (Has(i, "cookie-secure") /\ typ[i].tag["cookie-secure"] = "true")
    /\ Has(i, "cookie-samesite") =>
          c.SameSite = CASE typ[i].tag["cookie-samesite"] = "lax" -> SameSiteLaxMode
                         [] typ[i].tag["cookie-samesite"] = "strict" -> SameSiteStrictMode
                         [] typ[i].tag["cookie-samesite"] = "none" -> SameSiteNoneMode
                         [] OTHER -> SameSiteDefaultMode
    /\ c.RawExpires = IF Has(i, "cookie-expires") THEN typ[i].tag["cookie-expires"] ELSE ""

C8_CookiePrinter ==
    op = Op("Print", <<"cookie">>) =>
        /\ err = NoErr
        /\ CallsOf(calls, {"Set"}) = <<>>
        /\ Len(CallsOf(calls, {"SetField"})) = Len(CookieIdx)
        /\ Len(resp.cookies) = Len(CookieIdx)
        /\ \A n \in 1..Len(CookieIdx) :
              /\ CallsOf(calls, {"SetField"})[n].key = typ[CookieIdx[n]].tag["cookie"]
              /\ C8_CookieOf(resp.cookies[n], CookieIdx[n])

\* the five cookie fields of a reply, printed: Session is secure and lax,
\* Cart, whose cookie-secure is "TRUE", is not secure
C8_Witness ==
    /\ typ \in ReplyTypes
    /\ op = Op("Print", <<"cookie">>)
    /\ Len(resp.cookies) = 5
    /\ resp.cookies[1].Secure
    /\ resp.cookies[1].SameSite = SameSiteLaxMode
    /\ ~resp.cookies[3].Secure
    /\ resp.cookies[5].SameSite = SameSiteDefaultMode

(***************************************************************************)
(* C10: HeaderPrinter.Set given "Status" and a value that is no int        *)
(* panics: it neither finalizes the status nor sets a header; so           *)
(* HeaderPrinter.Print of a record whose Status is no int never returns,   *)
(* and a pipe with it runs no later stage.                                 *)
(***************************************************************************)
C10_SetStep ==
    (op'.name = "Set" /\ op'.key = "Status" /\ op'.val.k # "int") =>
        /\ err'.kind = "panic"
        /\ resp' = resp
        /\ calls' = <<>>

C10_PassStep ==
    (op' = Op("Print", <<"header">>) /\ StatusFields(FALSE) # {}) =>
        /\ err'.kind = "panic"
        /\ CallsOf(calls', {"WriteHeader"}) = <<>>
        /\ resp'.wrote = resp.wrote
        /\ resp'.status = resp.status
        /\ "Status" \notin DOMAIN resp'.header
        /\ calls'[Len(calls')] = Call("Set", "Status", 0)

C10_PipeStep ==
    (op'.name = "PipePrint" /\ StatusFields(FALSE) # {}) =>
        \A j \in 1..Len(op'.pipe) :
            (op'.pipe[j] = "header" /\ \A i \in 1..(j - 1) : op'.pipe[i] \in {"json", "cookie"}) =>
                /\ err'.kind = "panic"
                /\ Len(CallsOf(calls', {"Print"})) = j
                /\ resp'.status = resp.status
                /\ resp'.wrote = resp.wrote

C10_NonIntStatusPanics == [][C10_SetStep /\ C10_PassStep /\ C10_PipeStep]_vars

\* a pipe of the header printer and the cookie printer over a reply whose
\* Status is a string: the pipe panicked after Server was set, and no
\* cookie was
C10_Witness ==
    /\ typ = ReplyType("string", 2)
    /\ op = Op("PipePrint", <<"header", "cookie">>)
    /\ err.kind = "panic"
    /\ "Server" \in DOMAIN resp.header
    /\ ~resp.wrote
    /\ resp.cookies = <<>>

(***************************************************************************)
(* Vocabulary of the properties of a conversion.                           *)
(***************************************************************************)
CastDone == castOut.state # "idle"

Encoded == castOut.state = "encoded"

Commas(t) == Cardinality({i \in 1..Len(t) : t[i] = Comma})

\* the texts of the elements of a decoded sequence
ElemsOf(val) == [i \in 1..Len(val.v) |-> val.v[i].v]

NoComma(t) == \A i \in 1..Len(t) : t[i] # Comma

\* an integer written the way the encoder writes it
CanonicalInt(t) == ParseInt(t).cause = "" /\ FormatInt(ParseInt(t).val.v) = t

(***************************************************************************)
(* C7: for every sequence field, decoding the empty string gives a         *)
(* sequence of length 0; decoding a comma-delimited text gives its         *)
(* elements in order, each converted to the element type; encoding that    *)
(* sequence again reproduces the original text exactly.                    *)
(***************************************************************************)
C7_Decodes ==
    (CastDone /\ IsSlice(castIn.type)) =>
        LET res == castOut.res
            parts == SplitComma(castIn.text)
        IN  /\ Len(castIn.text) = 0 =>
                  res.cause = "" /\ res.val.k = "seq" /\ Len(res.val.v) = 0
            /\ (Len(castIn.text) > 0 /\ res.cause = "") =>
                  /\ res.val.k = "seq"
                  /\ Len(res.val.v) = Commas(castIn.text) + 1
                  /\ \A i \in 1..Len(res.val.v) :
                        res.val.v[i] = CastScalar(parts[i], Elem(castIn.type)).val
                  /\ castIn.type = "[]string" =>
                        /\ JoinComma(ElemsOf(res.val)) = castIn.text
                        /\ \A i \in 1..Len(res.val.v) : NoComma(res.val.v[i].v)

\* the claim as stated: every sequence that decodes encodes back to its text
C7_Original ==
    C7_Decodes /\ ((Encoded /\ IsSlice(castIn.type)) => castOut.back = castIn.text)

\* the claim as amended: the text comes back when the elements are strings,
\* or integers each written in canonical decimal form
C7_Amended ==
    /\ C7_Decodes
    /\ (/\ Encoded
        /\ \/ castIn.type = "[]string"
           \/ /\ castIn.type = "[]int"
              /\ \A i \in 1..Len(SplitComma(castIn.text)) :
                    CanonicalInt(SplitComma(castIn.text)[i]))
       => castOut.back = castIn.text

\* "7,0" decoded into a sequence of ints by the form scanner's Cast, and
\* encoded again
C7_Witness ==
    /\ castIn = [text |-> <<"7", Comma, "0">>, type |-> "[]int"]
    /\ castOut.by = "form"
    /\ Encoded
    /\ castOut.res.val = SeqV(<<IntV(7), IntV(0)>>)
    /\ castOut.back = castIn.text

(***************************************************************************)
(* C9: a text decoded into a field whose type has its own parser is handed *)
(* whole to the parser; decoded into a sequence of such a type it is split *)
(* on commas and each part parsed on its own, one instance per part in     *)
(* order; an error of the parser is returned unchanged as the cause.       *)
(***************************************************************************)
\* the parts of the text a Level parser rejects
BadLevels(t) ==
    {i \in 1..Len(SplitComma(t)) : LevelUnmarshalString(SplitComma(t)[i]).cause # ""}

C9_CustomParser ==
    CastDone =>
        LET res == castOut.res
            text == castIn.text
        IN  /\ castIn.type = "Role" => res = Ok(RoleV(text))
            /\ (castIn.type = "[]Role" /\ Len(text) > 0) =>
                  /\ res.cause = ""
                  /\ Len(res.val.v) = Commas(text) + 1
                  /\ \A i \in 1..Len(res.val.v) :
                        res.val.v[i].k = "role" /\ NoComma(res.val.v[i].v)
                  /\ JoinComma(ElemsOf(res.val)) = text
            /\ castIn.type = "Level" =>
                  IF Len(text) > 0 /\ \A i \in 1..Len(text) : text[i] = "a"
                  THEN res = Ok(LevelV(text))
                  ELSE res.cause = "level: unknown"
            /\ (castIn.type = "[]Level" /\ Len(text) > 0) =>
                  IF BadLevels(text) = {}
                  THEN /\ res.cause = ""
                       /\ JoinComma(ElemsOf(res.val)) = text
                  ELSE res.cause = "level: unknown"

\* "admin,user" decoded into a sequence of Role: admin, then user
C9_Witness ==
    /\ castIn = [text |-> Admin \o <<Comma>> \o User, type |-> "[]Role"]
    /\ castOut.state = "cast"
    /\ castOut.res.val = SeqV(<<RoleV(Admin), RoleV(User)>>)

====
